---- MODULE Spec2Model ----
\* A state-machine model of the btreeny behaviour-tree runtime
\* (src/src/btreeny/__init__.py, src/src/btreeny/_ctx.py).
\*
\* A tree is a nested term (one record per node constructor call); a node is
\* addressed by its path from the root (the sequence of child indexes).  The
\* operators Enter / tick / Exit are the three phases of a node handle
\* (`with node as tick: tick(b)`), threaded through a machine-state record s
\* that holds the per-node generator states and the four context variables.
EXTENDS Integers, Sequences, FiniteSets, TLC

VARIABLES tree, st, id_map, call_stack, tree_graph, tree_status, next_id,
          log, built, held, ret, arg, acquired, copied, current, other,
          routed

vars == <<tree, st, id_map, call_stack, tree_graph, tree_status, next_id,
          log, built, held, ret, arg, acquired, copied, current, other,
          routed>>

\* the execution contexts: id_map, call_stack, tree_graph and tree_status are
\* what the context variables give the context that is running (`current`);
\* `other` holds the bindings of the context that is not running
ctxvars == <<copied, current, other>>

-----------------------------------------------------------------------------
\* Bounds of the model.

\* most children given to sequential / fallback / parallel
MaxChildren == 2
\* largest `count` given to repeat
MaxCount == 2
\* node identities (uuid4 values) minted in one behaviour
MaxIds == 6
\* root acquisitions (`with root as tick:` blocks) in one behaviour
MaxAcquires == 2
MaxRouted == 5
\* distinct blackboard objects the driver passes to tick
NumBlackboards == 2

-----------------------------------------------------------------------------
\* Values.

RUNNING == "RUNNING"
SUCCESS == "SUCCESS"
FAILURE == "FAILURE"
TreeStatus == {RUNNING, SUCCESS, FAILURE}

BehaviourCompleteError == "BehaviourCompleteError"
ValueError == "ValueError"
TypeError == "TypeError"
Errors == {BehaviourCompleteError, ValueError, TypeError}

\* Python's None (a hashable dictionary key, and `count=None`)
None == -1
\* the list `[]` that _ctx.py stores in call_stack at import (not hashable)
EmptyList == -2

BBRefs == 1..NumBlackboards
EmptyMap == [x \in {} |-> x]

-----------------------------------------------------------------------------
\* Node constructors: the term a call of the library function builds.

Blank ==
    [kind |-> "", children |-> <<>>, continue_if |-> "", count |-> None,
     mapping |-> EmptyMap, from_ |-> "", to |-> "", always_return |-> "",
     max_failures |-> 0]

simple_action == [Blank EXCEPT !.kind = "simple_action"]

sequential(children) ==
    [Blank EXCEPT !.kind = "sequential", !.children = children]

fallback(children) ==
    [Blank EXCEPT !.kind = "fallback", !.children = children]

\* children holds the one node that each call of action_factory builds
repeat(action_factory, continue_if, count) ==
    [Blank EXCEPT !.kind = "repeat", !.children = <<action_factory>>,
                  !.continue_if = continue_if, !.count = count]

retry(action_factory, count) == repeat(action_factory, FAILURE, count)

\* mutation: redo continues on the result retry continues on
redo_on_failure(action_factory, count) ==
    repeat(action_factory, FAILURE, count)

redo(action_factory, count) == repeat(action_factory, SUCCESS, count)

remap(child, mapping) ==
    [Blank EXCEPT !.kind = "remap", !.children = <<child>>,
                  !.mapping = mapping]

\* mutation: the dictionary {from_: to}
swap_mapping_one_way(from_, to) == (from_ :> to)

\* the dictionary {from_: to, to: from_}
swap_mapping(from_, to) == (to :> from_) @@ (from_ :> to)

\* children holds the remap node that swap builds around its child
swap(child, from_, to) ==
    [Blank EXCEPT !.kind = "swap",
                  !.children = <<remap(child, swap_mapping(from_, to))>>,
                  !.from_ = from_, !.to = to]

always_return(child, result) ==
    [Blank EXCEPT !.kind = "always_return", !.children = <<child>>,
                  !.always_return = result]

\* `check` is an input of the tick (Inputs)
failsafe(nominal, failure) ==
    [Blank EXCEPT !.kind = "failsafe", !.children = <<nominal, failure>>]

\* the conditional switch: the condition is an input of each tick
react(nominal, failure) ==
    [Blank EXCEPT !.kind = "react", !.children = <<nominal, failure>>]

\* result_evaluation_function is the default reducer, with the given tolerance
parallel(children, max_failures) ==
    [Blank EXCEPT !.kind = "parallel", !.children = children,
                  !.max_failures = max_failures]

RECURSIVE Paths(_)
Paths(t) ==
    {<<>>} \cup UNION {{<<k>> \o q : q \in Paths(t.children[k])} :
                         k \in 1..Len(t.children)}

RECURSIVE Sub(_, _)
Sub(t, p) == IF p = <<>> THEN t ELSE Sub(t.children[Head(p)], Tail(p))

\* the node constructed at path p of the tree under test
N(p) == Sub(tree, p)

Child(p, k) == p \o <<k>>

IsPrefix(p, q) == Len(p) <= Len(q) /\ SubSeq(q, 1, Len(p)) = p

LeafPaths == {p \in Paths(tree) : N(p).kind = "simple_action"}

\* What one tick of the root reads from outside the engine: the result each
\* leaf's tick function returns if called, and what `check` returns for each
\* blackboard object with the content that object has during this tick.
\* A tree with no failsafe calls no `check`.
CheckPaths == {p \in Paths(tree) : N(p).kind \in {"failsafe", "react"}}

Checks ==
    IF CheckPaths = {} THEN {[b \in BBRefs |-> TRUE]} ELSE [BBRefs -> BOOLEAN]

Inputs == [leaf : [LeafPaths -> TreeStatus], check : Checks]

NoArg == [b |-> 0, ok |-> TRUE]

get_name(n) == n.kind

-----------------------------------------------------------------------------
\* Per-node runtime state: the handle (h), the identity minted at entry, the
\* locals of _manage_call_stack (parent), of the composite's generator (g is
\* the yield it is suspended at, i the loop index, open the child whose `with`
\* block the generator is inside, blackboard, result), of parallel (is_done)
\* and of _with_stack_reset (action_stack).
NewState ==
    [h |-> "new", id |-> 0, parent |-> 0, g |-> "-", i |-> 0, open |-> 0,
     blackboard |-> 0, result |-> "-", is_done |-> FALSE, action_stack |-> 0]

Event(op, p, id, bb, r) == [op |-> op, p |-> p, id |-> id, bb |-> bb, r |-> r]

LogEv(s, op, p, bb, r) ==
    [s EXCEPT !.log = Append(@, Event(op, p, s.st[p].id, bb, r))]

\* mutation: the parent's list is replaced by a list of the new child alone
setdefault_replace(graph, parent, id) == (parent :> <<id>>) @@ graph

\* mutation: the new child is put at the head of the parent's list
setdefault_prepend(graph, parent, id) ==
    IF parent \in DOMAIN graph
    THEN [graph EXCEPT ![parent] = <<id>> \o @]
    ELSE (parent :> <<id>>) @@ graph

\* graph.setdefault(parent, []).append(id)
setdefault_append(graph, parent, id) ==
    IF parent \in DOMAIN graph
    THEN [graph EXCEPT ![parent] = Append(@, id)]
    ELSE (parent :> <<id>>) @@ graph

IsGenerator(kind) == kind \in {"sequential", "fallback", "repeat", "failsafe"}

\* mutation: sequential stops at a child's SUCCESS instead of its FAILURE
stop_result_success(kind) == SUCCESS

stop_result(kind) == IF kind = "sequential" THEN FAILURE ELSE SUCCESS

\* mutation: fallback copies sequential's `yield TreeStatus.SUCCESS`
exhausted_result_success(kind) == SUCCESS

\* mutation: the generator yields RUNNING after its last child
exhausted_result_running(kind) == RUNNING

exhausted_result(kind) == IF kind = "sequential" THEN SUCCESS ELSE FAILURE

RECURSIVE Enter(_, _), Exit(_, _, _), tick(_, _, _, _),
          cursor_loop(_, _, _, _), cursor_child(_, _, _, _),
          repeat_loop(_, _, _, _), EnterChildren(_, _, _, _),
          ExitChildren(_, _, _, _), parallel_results(_, _, _, _, _, _)

\* _manage_call_stack up to its yield, with the identity minted by action.inner
manage_call_stack(p, s) ==
    LET id == s.next_id
        parent == s.call_stack
        s1 == [s EXCEPT !.next_id = @ + 1,
                        !.id_map = (id :> get_name(N(p))) @@ @,
                        !.call_stack = id,
                        !.st[p].id = id,
                        !.st[p].parent = parent]
    IN  IF parent = EmptyList
        THEN [s |-> s1, err |-> TypeError]
        ELSE [s |-> [s1 EXCEPT !.tree_graph =
                                  setdefault_append(@, parent, id)],
              err |-> ""]

\* react: both children have been instantiated, each with the active
\* ancestor captured for its branch; the mode starts as nominal
react_setup(p, e) ==
    IF e.err # ""
    THEN e
    ELSE [s |-> [e.s EXCEPT !.st[p].g = "nominal"], err |-> ""]

\* the body of the node function up to its yield
setup(p, s) ==
    LET kind == N(p).kind IN
    CASE kind = "simple_action" -> [s |-> s, err |-> ""]
      [] IsGenerator(kind) ->
            [s |-> [s EXCEPT !.st[p].g = "start"], err |-> ""]
      [] kind \in {"remap", "always_return"} -> Enter(Child(p, 1), s)
      [] kind = "swap" ->
            IF N(p).from_ = N(p).to
            THEN [s |-> s, err |-> ValueError]
            ELSE Enter(Child(p, 1), s)
      [] kind = "parallel" -> EnterChildren(p, 1, s, s.call_stack)
      [] kind = "react" ->
            react_setup(p, EnterChildren(p, 1, s, s.call_stack))

\* parallel: stack.enter_context(_with_stack_reset(child)) returned e for
\* child k; an exception unwinds the ExitStack
enter_context(p, k, e, this_stack) ==
    IF e.err # ""
    THEN [s |-> ExitChildren(p, k - 1, e.s, TRUE), err |-> e.err]
    ELSE EnterChildren(
            p, k + 1,
            [e.s EXCEPT !.st[Child(p, k)].action_stack = e.s.call_stack],
            this_stack)

\* parallel entering its children through _with_stack_reset, from child k on
EnterChildren(p, k, s, this_stack) ==
    IF k > Len(N(p).children)
    THEN [s |-> [s EXCEPT !.st[p].is_done = FALSE], err |-> ""]
    ELSE enter_context(p, k,
                       Enter(Child(p, k), [s EXCEPT !.call_stack = this_stack]),
                       this_stack)

\* action.inner: `with f(*args, **kwargs) as action` returned f
with_f(p, f) ==
    IF f.err # ""
    THEN [s |-> [f.s EXCEPT !.st[p].h = "closed"], err |-> f.err]
    ELSE [s |-> [f.s EXCEPT !.st[p].h = "open"], err |-> ""]

\* action.inner: `with _manage_call_stack(self_id, self_name)` returned m
with_manage_call_stack(p, m) ==
    IF m.err # ""
    THEN [s |-> [m.s EXCEPT !.st[p].h = "closed"], err |-> m.err]
    ELSE with_f(p, setup(p, LogEv(m.s, "setup", p, 0, "-")))

\* action.inner up to `yield action_func`
Enter(p, s) == with_manage_call_stack(p, manage_call_stack(p, s))

\* mutation: closing the generator does not unwind its `with child` block
close_without_unwind(p, s) == [s EXCEPT !.st[p].g = "done", !.st[p].open = 0]

\* stepper.close(): GeneratorExit is raised at the yield the generator is
\* suspended at, and unwinds the `with child` block it is inside, if any
close(p, s) ==
    LET s1 == IF s.st[p].open # 0
              THEN Exit(Child(p, s.st[p].open), s, TRUE)
              ELSE s
    IN  [s1 EXCEPT !.st[p].g = "done", !.st[p].open = 0]

\* react releasing child k, under the active ancestor captured for it
react_exit(p, k, s, exc) ==
    Exit(Child(p, k),
         IF exc
         THEN s
         ELSE [s EXCEPT !.call_stack = s.st[Child(p, k)].action_stack],
         exc)

\* react releasing both children, the branch of the current mode first
react_release(p, s, exc) ==
    IF s.st[p].g = "failure"
    THEN react_exit(p, 1, react_exit(p, 2, s, exc), exc)
    ELSE react_exit(p, 2, react_exit(p, 1, s, exc), exc)

\* the body of the node function after its yield
teardown(p, s, exc) ==
    LET kind == N(p).kind IN
    CASE kind = "simple_action" -> s
      [] IsGenerator(kind) -> close(p, s)
      [] kind \in {"remap", "always_return", "swap"} ->
            Exit(Child(p, 1), s, exc)
      [] kind = "parallel" -> ExitChildren(p, Len(N(p).children), s, exc)
      [] kind = "react" -> react_release(p, s, exc)

\* the ExitStack of parallel leaving the _with_stack_reset blocks of children
\* k, k-1, ..., 1
ExitChildren(p, k, s, exc) ==
    IF k = 0
    THEN s
    ELSE LET c == Child(p, k)
             s1 == IF exc
                   THEN s
                   ELSE [s EXCEPT !.call_stack = s.st[c].action_stack]
         IN  ExitChildren(p, k - 1, Exit(c, s1, exc), exc)

\* _manage_call_stack after its yield, reached from state s1; exc: the block
\* is left by an exception, which _manage_call_stack does not catch
manage_call_stack_exit(p, s1, exc) ==
    [s1 EXCEPT !.call_stack = IF exc THEN @ ELSE s1.st[p].parent,
               !.st[p].h = "closed"]

\* action.inner after `yield action_func`
Exit(p, s, exc) ==
    manage_call_stack_exit(
        p, teardown(p, LogEv(s, "teardown", p, 0, "-"), exc), exc)

\* the generator resumed at a yield that is followed by `return`
gen_return(p, s) ==
    close(p, IF s.st[p].open # 0
             THEN [Exit(Child(p, s.st[p].open), s, FALSE)
                     EXCEPT !.st[p].open = 0]
             ELSE s)

\* sequential.gen / fallback.gen: `with child_context_manager` returned e
cursor_with(p, e, i, orc) ==
    IF e.err # ""
    THEN [s |-> [e.s EXCEPT !.st[p].g = "done", !.st[p].open = 0],
          r |-> e.err]
    ELSE cursor_child(p, [e.s EXCEPT !.st[p].i = i, !.st[p].open = i],
                      i, orc)

\* mutation: the loop over the children starts at the second child
cursor_loop_skips_first(p, s, i, orc) ==
    IF i > Len(N(p).children)
    THEN [s |-> [s EXCEPT !.st[p].g = "final", !.st[p].i = i,
                          !.st[p].open = 0],
          r |-> exhausted_result(N(p).kind)]
    ELSE IF i = 1 /\ Len(N(p).children) > 1
    THEN cursor_with(p, Enter(Child(p, 2), s), 2, orc)
    ELSE cursor_with(p, Enter(Child(p, i), s), i, orc)

\* sequential.gen / fallback.gen: one iteration of `for child in children`
cursor_loop(p, s, i, orc) ==
    IF i > Len(N(p).children)
    THEN [s |-> [s EXCEPT !.st[p].g = "final", !.st[p].i = i,
                          !.st[p].open = 0],
          r |-> exhausted_result(N(p).kind)]
    ELSE cursor_with(p, Enter(Child(p, i), s), i, orc)

\* mutation: the loop moves on to the next child inside the `with` block of
\* the current one
cursor_child_keeps_open(p, s, i, orc) ==
    LET c == Child(p, i)
        t == tick(c, s, s.st[p].blackboard, orc)
    IN  CASE t.r = RUNNING ->
                [s |-> [t.s EXCEPT !.st[p].g = "running"], r |-> RUNNING]
          [] t.r = stop_result(N(p).kind) ->
                [s |-> [t.s EXCEPT !.st[p].g = "final"], r |-> t.r]
          [] t.r \in TreeStatus \ {RUNNING, stop_result(N(p).kind)} ->
                cursor_loop(p, t.s, i + 1, orc)
          [] OTHER ->
                [s |-> [Exit(c, t.s, TRUE) EXCEPT !.st[p].g = "done",
                                                  !.st[p].open = 0],
                 r |-> t.r]

\* sequential.gen / fallback.gen: the `while child_action(blackboard)` loop
cursor_child(p, s, i, orc) ==
    LET c == Child(p, i)
        t == tick(c, s, s.st[p].blackboard, orc)
    IN  CASE t.r = RUNNING ->
                [s |-> [t.s EXCEPT !.st[p].g = "running"], r |-> RUNNING]
          [] t.r = stop_result(N(p).kind) ->
                [s |-> [t.s EXCEPT !.st[p].g = "final"], r |-> t.r]
          [] t.r \in TreeStatus \ {RUNNING, stop_result(N(p).kind)} ->
                cursor_loop(p, [Exit(c, t.s, FALSE) EXCEPT !.st[p].open = 0],
                            i + 1, orc)
          [] OTHER ->
                [s |-> [Exit(c, t.s, TRUE) EXCEPT !.st[p].g = "done",
                                                  !.st[p].open = 0],
                 r |-> t.r]

\* inner of sequential / fallback: stepper.send(blackboard), StopIteration
\* turned into BehaviourCompleteError
cursor_inner(p, s, b, orc) ==
    LET g == s.st[p].g IN
    CASE g = "start" ->
            cursor_loop(p, [s EXCEPT !.st[p].blackboard = b], 1, orc)
      [] g = "running" ->
            cursor_child(p, [s EXCEPT !.st[p].blackboard = b],
                         s.st[p].i, orc)
      [] g = "final" -> [s |-> gen_return(p, s), r |-> BehaviourCompleteError]
      [] OTHER -> [s |-> s, r |-> BehaviourCompleteError]

\* the iterator `children` of repeat has an element of index i
has_child(n, i) == n.count = None \/ i < n.count

\* mutation: the bound is reached one repetition early
is_last_early(n, i) == n.count # None /\ i >= n.count - 2

\* repeat.gen: repetition i is the last one the bound allows
is_last(n, i) == n.count # None /\ i >= n.count - 1

\* repeat.gen: the `while child_action(blackboard)` loop of repetition i
repeat_child(p, s, i, orc) ==
    LET c == Child(p, 1)
        n == N(p)
        t == tick(c, s, s.st[p].blackboard, orc)
    IN  CASE t.r = RUNNING ->
                [s |-> [t.s EXCEPT !.st[p].g = "running",
                                   !.st[p].result = t.r],
                 r |-> RUNNING]
          [] t.r \in TreeStatus \ {RUNNING} /\ t.r = n.continue_if ->
                IF is_last(n, i)
                THEN [s |-> [t.s EXCEPT !.st[p].g = "final",
                                        !.st[p].result = t.r],
                      r |-> t.r]
                ELSE [s |-> [t.s EXCEPT !.st[p].g = "between",
                                        !.st[p].result = t.r],
                      r |-> RUNNING]
          [] t.r \in TreeStatus \ {RUNNING} /\ t.r # n.continue_if ->
                [s |-> [t.s EXCEPT !.st[p].g = "final",
                                   !.st[p].result = t.r],
                 r |-> t.r]
          [] OTHER ->
                [s |-> [Exit(c, t.s, TRUE) EXCEPT !.st[p].g = "done",
                                                  !.st[p].open = 0],
                 r |-> t.r]

\* repeat: `factory()` builds a node that has not been entered
action_factory(p, s) ==
    [s EXCEPT !.st = [q \in DOMAIN @ |->
                        IF IsPrefix(Child(p, 1), q) THEN NewState ELSE @[q]]]

\* repeat.gen: `with child_context_manager` returned e
repeat_with(p, e, i, orc) ==
    IF e.err # ""
    THEN [s |-> [e.s EXCEPT !.st[p].g = "done", !.st[p].open = 0],
          r |-> e.err]
    ELSE repeat_child(p, [e.s EXCEPT !.st[p].i = i, !.st[p].open = 1],
                      i, orc)

\* repeat.gen: iteration i of `for i, child in enumerate(children)`; the
\* iterator calls action_factory, which builds a new node
repeat_loop(p, s, i, orc) ==
    IF ~has_child(N(p), i)
    THEN [s |-> [s EXCEPT !.st[p].g = "final", !.st[p].open = 0],
          r |-> s.st[p].result]
    ELSE repeat_with(p, Enter(Child(p, 1), action_factory(p, s)), i, orc)

\* mutation: the next repetition is instantiated inside the `with` block of
\* the current one
repeat_inner_keeps_child(p, s, b, orc) ==
    LET g == s.st[p].g IN
    CASE g = "start" ->
            repeat_loop(p, [s EXCEPT !.st[p].blackboard = b,
                                     !.st[p].result = SUCCESS], 0, orc)
      [] g = "running" ->
            repeat_child(p, [s EXCEPT !.st[p].blackboard = b],
                         s.st[p].i, orc)
      [] g = "between" ->
            repeat_loop(p, [s EXCEPT !.st[p].blackboard = b],
                        s.st[p].i + 1, orc)
      [] g = "final" -> [s |-> gen_return(p, s), r |-> BehaviourCompleteError]
      [] OTHER -> [s |-> s, r |-> BehaviourCompleteError]

\* inner of repeat
repeat_inner(p, s, b, orc) ==
    LET g == s.st[p].g IN
    CASE g = "start" ->
            repeat_loop(p, [s EXCEPT !.st[p].blackboard = b,
                                     !.st[p].result = SUCCESS], 0, orc)
      [] g = "running" ->
            repeat_child(p, [s EXCEPT !.st[p].blackboard = b],
                         s.st[p].i, orc)
      [] g = "between" ->
            repeat_loop(p, [Exit(Child(p, 1),
                                 [s EXCEPT !.st[p].blackboard = b], FALSE)
                              EXCEPT !.st[p].open = 0],
                        s.st[p].i + 1, orc)
      [] g = "final" -> [s |-> gen_return(p, s), r |-> BehaviourCompleteError]
      [] OTHER -> [s |-> s, r |-> BehaviourCompleteError]

\* mutation: remap tracks the completion of its child and refuses later ticks
remap_inner_tracks_completion(p, s, b, orc) ==
    IF s.st[p].is_done
    THEN [s |-> s, r |-> BehaviourCompleteError]
    ELSE LET t == tick(Child(p, 1), s, b, orc)
             mapping == N(p).mapping
         IN  IF t.r \notin TreeStatus
             THEN t
             ELSE [s |-> [t.s EXCEPT !.st[p].is_done = (t.r # RUNNING)],
                   r |-> IF t.r \in DOMAIN mapping THEN mapping[t.r] ELSE t.r]

\* mutation: `mapping[result]` with a default of SUCCESS
remap_inner_default(p, s, b, orc) ==
    LET t == tick(Child(p, 1), s, b, orc)
        mapping == N(p).mapping
    IN  IF t.r \notin TreeStatus
        THEN t
        ELSE [s |-> t.s,
              r |-> IF t.r \in DOMAIN mapping THEN mapping[t.r] ELSE SUCCESS]

\* inner of remap
remap_inner(p, s, b, orc) ==
    LET t == tick(Child(p, 1), s, b, orc)
        mapping == N(p).mapping
    IN  IF t.r \notin TreeStatus
        THEN t
        ELSE [s |-> t.s,
              r |-> IF t.r \in DOMAIN mapping THEN mapping[t.r] ELSE t.r]

\* mutation: a RUNNING child result is forwarded
always_return_inner_forward_running(p, s, b, orc) ==
    LET t == tick(Child(p, 1), s, b, orc)
    IN  IF t.r \notin TreeStatus \/ t.r = RUNNING
        THEN t
        ELSE [s |-> t.s, r |-> N(p).always_return]

\* inner of always_return
always_return_inner(p, s, b, orc) ==
    LET t == tick(Child(p, 1), s, b, orc)
    IN  IF t.r \notin TreeStatus
        THEN t
        ELSE [s |-> t.s, r |-> N(p).always_return]

\* failsafe.gen: the failure block
failsafe_failure(p, s, orc) ==
    LET c == Child(p, 2)
        t == tick(c, s, s.st[p].blackboard, orc)
    IN  CASE t.r = RUNNING ->
                [s |-> [t.s EXCEPT !.st[p].g = "failure",
                                   !.st[p].result = t.r],
                 r |-> RUNNING]
          [] t.r \in TreeStatus \ {RUNNING} ->
                [s |-> [t.s EXCEPT !.st[p].g = "final",
                                   !.st[p].result = t.r],
                 r |-> t.r]
          [] OTHER ->
                [s |-> [Exit(c, t.s, TRUE) EXCEPT !.st[p].g = "done",
                                                  !.st[p].open = 0],
                 r |-> t.r]

\* failsafe.gen: `with failure` returned e
failsafe_with_failure(p, e, orc) ==
    IF e.err # ""
    THEN [s |-> [e.s EXCEPT !.st[p].g = "done", !.st[p].open = 0],
          r |-> e.err]
    ELSE failsafe_failure(p, [e.s EXCEPT !.st[p].open = 2], orc)

\* mutation: the failure node is entered inside the `with nominal` block
failsafe_nominal_keeps_nominal(p, s, orc) ==
    LET c == Child(p, 1)
        blackboard == s.st[p].blackboard
        ok == orc.check[blackboard]
        s1 == LogEv(s, "check", p, blackboard, IF ok THEN "True" ELSE "False")
        t == tick(c, s1, blackboard, orc)
    IN  CASE ok /\ t.r = RUNNING ->
                [s |-> [t.s EXCEPT !.st[p].g = "nominal",
                                   !.st[p].result = t.r],
                 r |-> RUNNING]
          [] ok /\ t.r \in TreeStatus \ {RUNNING} ->
                [s |-> [t.s EXCEPT !.st[p].g = "final",
                                   !.st[p].result = t.r],
                 r |-> t.r]
          [] ok /\ t.r \notin TreeStatus ->
                [s |-> [Exit(c, t.s, TRUE) EXCEPT !.st[p].g = "done",
                                                  !.st[p].open = 0],
                 r |-> t.r]
          [] OTHER ->
                failsafe_with_failure(p, Enter(Child(p, 2), s1), orc)

\* failsafe.gen: the nominal block, from the evaluation of `check(blackboard)`
failsafe_nominal(p, s, orc) ==
    LET c == Child(p, 1)
        blackboard == s.st[p].blackboard
        ok == orc.check[blackboard]
        s1 == LogEv(s, "check", p, blackboard, IF ok THEN "True" ELSE "False")
        t == tick(c, s1, blackboard, orc)
    IN  CASE ok /\ t.r = RUNNING ->
                [s |-> [t.s EXCEPT !.st[p].g = "nominal",
                                   !.st[p].result = t.r],
                 r |-> RUNNING]
          [] ok /\ t.r \in TreeStatus \ {RUNNING} ->
                [s |-> [t.s EXCEPT !.st[p].g = "final",
                                   !.st[p].result = t.r],
                 r |-> t.r]
          [] ok /\ t.r \notin TreeStatus ->
                [s |-> [Exit(c, t.s, TRUE) EXCEPT !.st[p].g = "done",
                                                  !.st[p].open = 0],
                 r |-> t.r]
          [] OTHER ->
                failsafe_with_failure(
                    p, Enter(Child(p, 2),
                             [Exit(c, s1, FALSE) EXCEPT !.st[p].open = 0]),
                    orc)

\* failsafe.gen: `with nominal` returned e
failsafe_with_nominal(p, e, orc) ==
    IF e.err # ""
    THEN [s |-> [e.s EXCEPT !.st[p].g = "done"], r |-> e.err]
    ELSE failsafe_nominal(p, [e.s EXCEPT !.st[p].open = 1], orc)

\* inner of failsafe
failsafe_inner(p, s, b, orc) ==
    LET g == s.st[p].g
    IN  CASE g = "start" ->
                failsafe_with_nominal(
                    p, Enter(Child(p, 1), [s EXCEPT !.st[p].blackboard = b,
                                                    !.st[p].result = SUCCESS]),
                    orc)
          [] g = "nominal" -> failsafe_nominal(p, s, orc)
          [] g = "failure" ->
                failsafe_failure(p, [s EXCEPT !.st[p].blackboard = b], orc)
          [] g = "final" ->
                [s |-> gen_return(p, s), r |-> BehaviourCompleteError]
          [] OTHER -> [s |-> s, r |-> BehaviourCompleteError]

RECURSIVE reduce_loop(_, _, _, _)
\* mutation: the loop returns at the first FAILURE over the tolerance
reduce_loop_fail_fast(results, k, n_failing, max_failures) ==
    IF k > Len(results)
    THEN IF n_failing > max_failures THEN FAILURE ELSE SUCCESS
    ELSE CASE results[k] = FAILURE ->
                 IF n_failing + 1 > max_failures
                 THEN FAILURE
                 ELSE reduce_loop(results, k + 1, n_failing + 1, max_failures)
           [] results[k] = RUNNING -> RUNNING
           [] OTHER -> reduce_loop(results, k + 1, n_failing, max_failures)

\* the `for result in results` loop of the default reducer, from element k
reduce_loop(results, k, n_failing, max_failures) ==
    IF k > Len(results)
    THEN IF n_failing > max_failures THEN FAILURE ELSE SUCCESS
    ELSE CASE results[k] = FAILURE ->
                 reduce_loop(results, k + 1, n_failing + 1, max_failures)
           [] results[k] = RUNNING -> RUNNING
           [] OTHER -> reduce_loop(results, k + 1, n_failing, max_failures)

any_running_is_running_allow_max_failures_failures(results, max_failures) ==
    reduce_loop(results, 1, 0, max_failures)

\* _with_stack_reset._inner of child k
with_stack_reset_inner(p, k, s, b, orc) ==
    LET c == Child(p, k)
        current_stack == s.call_stack
        t == tick(c, [s EXCEPT !.call_stack = s.st[c].action_stack], b, orc)
    IN  IF t.r \notin TreeStatus
        THEN t
        ELSE [s |-> [t.s EXCEPT !.st[c].action_stack = t.s.call_stack,
                                !.call_stack = current_stack],
              r |-> t.r]

\* mutation: the loop over tick_functions stops at a child that is RUNNING
parallel_results_short_circuit(p, k, results, s, b, orc) ==
    IF k > Len(N(p).children)
    THEN [s |-> s, results |-> results, err |-> ""]
    ELSE LET t == with_stack_reset_inner(p, k, s, b, orc)
         IN  IF t.r \notin TreeStatus
             THEN [s |-> t.s, results |-> results, err |-> t.r]
             ELSE IF t.r = RUNNING
             THEN [s |-> t.s, results |-> Append(results, t.r), err |-> ""]
             ELSE parallel_results(p, k + 1, Append(results, t.r), t.s,
                                   b, orc)

\* `[func(blackboard) for func in tick_functions]`, from child k on
parallel_results(p, k, results, s, b, orc) ==
    IF k > Len(N(p).children)
    THEN [s |-> s, results |-> results, err |-> ""]
    ELSE LET t == with_stack_reset_inner(p, k, s, b, orc)
         IN  IF t.r \notin TreeStatus
             THEN [s |-> t.s, results |-> results, err |-> t.r]
             ELSE parallel_results(p, k + 1, Append(results, t.r), t.s,
                                   b, orc)

\* mutation: _inner never looks at is_done
parallel_inner_no_check(p, s, b, orc) ==
    LET rs == parallel_results(p, 1, <<>>, s, b, orc)
        result == any_running_is_running_allow_max_failures_failures(
                      rs.results, N(p).max_failures)
    IN  IF rs.err # ""
        THEN [s |-> rs.s, r |-> rs.err]
        ELSE [s |-> [rs.s EXCEPT !.st[p].is_done = (result # RUNNING)],
              r |-> result]

\* _inner of parallel
parallel_inner(p, s, b, orc) ==
    LET rs == parallel_results(p, 1, <<>>, s, b, orc)
        result == any_running_is_running_allow_max_failures_failures(
                      rs.results, N(p).max_failures)
    IN  IF s.st[p].is_done
        THEN [s |-> s, r |-> BehaviourCompleteError]
        ELSE IF rs.err # ""
        THEN [s |-> rs.s, r |-> rs.err]
        ELSE [s |-> [rs.s EXCEPT !.st[p].is_done = (result # RUNNING)],
              r |-> result]

\* mutation: the condition is read the wrong way round
react_branch_inverted(ok) == IF ok THEN 2 ELSE 1

\* the child react ticks when its condition evaluates to ok
react_branch(ok) == IF ok THEN 1 ELSE 2

\* react switching its mode to branch k: both children stay as they are
react_switch(p, k, s) ==
    [s EXCEPT !.st[p].g = IF k = 1 THEN "nominal" ELSE "failure"]

\* tick of react: evaluate the condition on the blackboard, switch to the
\* branch it selects, tick that branch under the active ancestor captured
\* for it and return its result
react_inner(p, s, b, orc) ==
    LET ok == orc.check[b]
        k == react_branch(ok)
        s1 == LogEv(s, "check", p, b, IF ok THEN "True" ELSE "False")
    IN  with_stack_reset_inner(p, k, react_switch(p, k, s1), b, orc)

\* the tick function the node function yields
action_call(p, s, b, orc) ==
    LET kind == N(p).kind IN
    CASE kind = "simple_action" -> [s |-> s, r |-> orc.leaf[p]]
      [] kind \in {"sequential", "fallback"} -> cursor_inner(p, s, b, orc)
      [] kind = "repeat" -> repeat_inner(p, s, b, orc)
      [] kind = "remap" -> remap_inner(p, s, b, orc)
      [] kind = "swap" -> tick(Child(p, 1), s, b, orc)
      [] kind = "always_return" -> always_return_inner(p, s, b, orc)
      [] kind = "failsafe" -> failsafe_inner(p, s, b, orc)
      [] kind = "parallel" -> parallel_inner(p, s, b, orc)
      [] kind = "react" -> react_inner(p, s, b, orc)

\* mutation: a RUNNING result is not recorded
set_tree_status_skip_running(p, b, a) ==
    [s |-> LogEv(IF a.r \in {SUCCESS, FAILURE}
                 THEN [a.s EXCEPT !.tree_status =
                                     (a.s.st[p].id :> a.r) @@ @]
                 ELSE a.s,
                 "tick", p, b, a.r),
     r |-> a.r]

\* action_func after `result = action(blackboard)` gave a: a result is
\* recorded in tree_status, an exception passes through
set_tree_status(p, b, a) ==
    [s |-> LogEv(IF a.r \in TreeStatus
                 THEN [a.s EXCEPT !.tree_status =
                                     (a.s.st[p].id :> a.r) @@ @]
                 ELSE a.s,
                 "tick", p, b, a.r),
     r |-> a.r]

\* action_func: call the node's tick function and record its result
tick(p, s, b, orc) == set_tree_status(p, b, action_call(p, s, b, orc))

-----------------------------------------------------------------------------
\* The trees under test.

Leaves(n) == [k \in 1..n |-> simple_action]

Counts == {None} \cup 0..MaxCount

Mappings == UNION {[D -> TreeStatus] : D \in SUBSET TreeStatus}

Trees ==
    {simple_action}
    \cup {sequential(Leaves(n)) : n \in 0..MaxChildren}
    \cup {fallback(Leaves(n)) : n \in 0..MaxChildren}
    \cup {parallel(Leaves(n), m) : n \in 0..MaxChildren, m \in 0..1}
    \cup {retry(simple_action, n) : n \in Counts}
    \cup {redo(simple_action, n) : n \in Counts}
    \cup {remap(simple_action, m) : m \in Mappings}
    \cup {swap(simple_action, a, b) : a \in TreeStatus, b \in TreeStatus}
    \cup {swap(swap(simple_action, ab[1], ab[2]), ab[1], ab[2]) :
             ab \in {x \in TreeStatus \X TreeStatus : x[1] # x[2]}}
    \cup {always_return(simple_action, a) : a \in TreeStatus}
    \cup {failsafe(simple_action, simple_action)}
    \cup {sequential(<<fallback(Leaves(1)), simple_action>>),
          fallback(<<sequential(Leaves(1)), simple_action>>),
          parallel(<<sequential(Leaves(1)), simple_action>>, 0),
          remap(sequential(Leaves(1)), EmptyMap),
          retry(sequential(Leaves(1)), 2),
          always_return(sequential(Leaves(1)), FAILURE),
          swap(fallback(Leaves(1)), SUCCESS, FAILURE),
          failsafe(sequential(Leaves(1)), retry(simple_action, 1))}

\* the trees with a conditional switch at the root
ReactTrees ==
    {react(simple_action, simple_action),
     react(redo(simple_action, 2), simple_action)}

-----------------------------------------------------------------------------
\* The driver: `with root as tick:` ... `tick(b)` ... end of the block.

\* the bindings of the running context for the two context variables whose
\* values are replaced by every write: id_map gets a fresh deep copy and
\* call_stack a new value.  tree_graph and tree_status are bound in every
\* context to the one dict created when the module is imported: the code
\* mutates that dict in place and sets the variable to the same object again.
Bindings == [id_map |-> id_map, call_stack |-> call_stack]

Machine ==
    [st |-> st, id_map |-> id_map, call_stack |-> call_stack,
     tree_graph |-> tree_graph, tree_status |-> tree_status,
     next_id |-> next_id, log |-> <<>>]

Commit(s) ==
    /\ s.next_id <= MaxIds + 1
    /\ st' = s.st
    /\ id_map' = s.id_map
    /\ call_stack' = s.call_stack
    /\ tree_graph' = s.tree_graph
    /\ tree_status' = s.tree_status
    /\ next_id' = s.next_id
    /\ log' = s.log

Init ==
    /\ tree \in Trees
    /\ st = [p \in Paths(tree) |-> NewState]
    /\ id_map = EmptyMap
    /\ call_stack = EmptyList
    /\ tree_graph = EmptyMap
    /\ tree_status = EmptyMap
    /\ next_id = 1
    /\ log = <<>>
    /\ built = FALSE
    /\ held = FALSE
    /\ ret = "-"
    /\ arg = NoArg
    /\ acquired = 0
    /\ copied = FALSE
    /\ current = "main"
    /\ other = Bindings
    /\ routed = <<>>

\* the driver calls the node functions that build a tree of the shape under
\* test: each call returns a context manager whose body has not started
Construct ==
    /\ ~built
    /\ ~held
    /\ acquired < MaxAcquires
    /\ built' = TRUE
    /\ st' = [p \in Paths(tree) |-> NewState]
    /\ log' = <<>>
    /\ ret' = "-"
    /\ arg' = NoArg
    /\ routed' = <<>>
    /\ UNCHANGED <<tree, id_map, call_stack, tree_graph, tree_status,
                   next_id, held, acquired>>
    /\ UNCHANGED ctxvars

\* `with root as tick:` enters the root that was constructed
Acquire ==
    /\ built
    /\ ~held
    /\ built' = FALSE
    /\ acquired' = acquired + 1
    /\ LET e == Enter(<<>>, Machine)
       IN  /\ Commit(e.s)
           /\ held' = (e.err = "")
           /\ ret' = IF e.err = "" THEN "-" ELSE e.err
    /\ arg' = NoArg
    /\ UNCHANGED <<tree, routed>>
    /\ UNCHANGED ctxvars

\* the record of a tick of a react root: the value of its condition and the
\* children it ticked, kept for the first MaxRouted ticks of the handle
route(b, orc, lg) ==
    IF tree.kind = "react" /\ Len(routed) < MaxRouted
    THEN Append(routed,
                [condition |-> orc.check[b],
                 ticked |-> {k \in 1..2 :
                               \E j \in 1..Len(lg) :
                                   lg[j].op = "tick" /\ lg[j].p = <<k>>}])
    ELSE routed

\* the root's tick function returned t
tick_returns(t, b, orc) ==
    /\ Commit(t.s)
    /\ ret' = t.r
    /\ arg' = [b |-> b, ok |-> orc.check[b]]
    /\ routed' = route(b, orc, t.s.log)

\* the driver calls the root's tick function with blackboard object b; the
\* leaves' results and the blackboards' contents at this tick are inputs
Tick ==
    /\ held
    /\ \E b \in BBRefs : \E orc \in Inputs :
          tick_returns(tick(<<>>, Machine, b, orc), b, orc)
    /\ UNCHANGED <<tree, built, held, acquired>>
    /\ UNCHANGED ctxvars

\* the driver leaves the `with` block normally
Release ==
    /\ held
    /\ Commit(Exit(<<>>, Machine, FALSE))
    /\ held' = FALSE
    /\ ret' = "-"
    /\ arg' = NoArg
    /\ UNCHANGED <<tree, built, acquired, routed>>
    /\ UNCHANGED ctxvars

\* the error the last tick raised leaves the `with` block
ReleaseOnError ==
    /\ held
    /\ ret \in Errors
    /\ Commit(Exit(<<>>, Machine, TRUE))
    /\ held' = FALSE
    /\ arg' = NoArg
    /\ UNCHANGED <<tree, built, ret, acquired, routed>>
    /\ UNCHANGED ctxvars

Next == Construct \/ Acquire \/ Tick \/ Release \/ ReleaseOnError

Spec == Init /\ [][Next]_vars

\* contextvars.copy_context(): the new context starts with the bindings of the
\* running one, and is not running yet
copy_context ==
    /\ ~copied
    /\ copied' = TRUE
    /\ other' = Bindings
    /\ UNCHANGED <<tree, st, id_map, call_stack, tree_graph, tree_status,
                   next_id, log, built, held, ret, arg, acquired, current,
                   routed>>

\* Context.run(): the driver goes on in the other context, entering the copy
\* or returning from it
run ==
    /\ copied
    /\ current' = IF current = "main" THEN "copy" ELSE "main"
    /\ id_map' = other.id_map
    /\ call_stack' = other.call_stack
    /\ other' = Bindings
    /\ UNCHANGED <<tree, st, tree_graph, tree_status, next_id, log, built,
                   held, ret, arg, acquired, copied, routed>>

\* the driver of a tree with a conditional switch
InitReact ==
    /\ tree \in ReactTrees
    /\ st = [p \in Paths(tree) |-> NewState]
    /\ id_map = EmptyMap
    /\ call_stack = EmptyList
    /\ tree_graph = EmptyMap
    /\ tree_status = EmptyMap
    /\ next_id = 1
    /\ log = <<>>
    /\ built = FALSE
    /\ held = FALSE
    /\ ret = "-"
    /\ arg = NoArg
    /\ acquired = 0
    /\ copied = FALSE
    /\ current = "main"
    /\ other = Bindings
    /\ routed = <<>>

SpecReact == InitReact /\ [][Next]_vars

NextContexts == Next \/ copy_context \/ run

SpecContexts == Init /\ [][NextContexts]_vars

\* the driver loop `while result == RUNNING: result = tick(blackboard)`: the
\* root is ticked only while it has not returned SUCCESS or FAILURE
TickWhileRunning ==
    /\ ret \notin {SUCCESS, FAILURE}
    /\ Tick

NextLoop ==
    Construct \/ Acquire \/ TickWhileRunning \/ Release \/ ReleaseOnError

SpecLoop == Init /\ [][NextLoop]_vars

-----------------------------------------------------------------------------
\* Observations: what one driver action did, read from its event log lg, and
\* what the status map ts and the graph gr hold.

Terminal == {SUCCESS, FAILURE}

SingleShot == {"sequential", "fallback", "repeat", "failsafe", "parallel"}

TickIdx(lg) == {k \in 1..Len(lg) : lg[k].op = "tick"}

\* the tick events of nodes of the given kind
TicksOf(kind, lg) == {lg[k] : k \in {j \in TickIdx(lg) : N(lg[j].p).kind = kind}}

\* the tick events of the direct children of node p, in the order they happened
KidTicks(p, lg) ==
    SelectSeq(lg, LAMBDA e : e.op = "tick" /\ Len(e.p) = Len(p) + 1
                                          /\ IsPrefix(p, e.p))

\* the tick events of node q
TicksAt(q, lg) == SelectSeq(lg, LAMBDA e : e.op = "tick" /\ e.p = q)

SetupsAt(q, lg) == SelectSeq(lg, LAMBDA e : e.op = "setup" /\ e.p = q)

TeardownsAt(q, lg) == SelectSeq(lg, LAMBDA e : e.op = "teardown" /\ e.p = q)

Status(ts, id) == IF id \in DOMAIN ts THEN ts[id] ELSE "-"

GraphKids(gr, id) == IF id \in DOMAIN gr THEN gr[id] ELSE <<>>

\* the children's tick events K of one tick of a cursor composite are ticks
\* of consecutive children, each but the last reporting `advance`
CursorOrder(e, K, advance) ==
    \A k \in 1..(Len(K) - 1) :
        /\ K[k].r = advance
        /\ K[k + 1].p = Child(e.p, K[k].p[Len(K[k].p)] + 1)

\* a cursor composite that returned RUNNING re-ticks the same child instance
\* without setting it up again, and a finished one ticks no child
CursorResumes(kind) ==
    \A e \in TicksOf(kind, log') :
        LET p == e.p
            K == KidTicks(p, log')
            c == Child(p, st[p].i)
        IN  /\ (e.id = st[p].id /\ Status(tree_status, e.id) = RUNNING) =>
                  /\ Len(K) > 0
                  /\ K[1].p = c
                  /\ K[1].id = st[c].id
                  /\ SetupsAt(c, log') = <<>>
            /\ Status(tree_status, e.id) \in Terminal => K = <<>>

-----------------------------------------------------------------------------
\* C1 (as stated): a tick of sequential returns FAILURE when a child reports
\* FAILURE in it, SUCCESS when the last child reports SUCCESS in it, and
\* RUNNING in every other case; children are ticked in order, none after a
\* child that reported FAILURE or RUNNING; after RUNNING the next tick
\* re-ticks the same child instance without a second setup.
SequentialReports(e, K) ==
    LET n == Len(N(e.p).children)
        failed == \E k \in 1..Len(K) : K[k].r = FAILURE
        last_ok == /\ Len(K) > 0
                   /\ K[Len(K)].p = Child(e.p, n)
                   /\ K[Len(K)].r = SUCCESS
    IN  /\ failed => e.r = FAILURE
        /\ last_ok => e.r = SUCCESS
        /\ (e.r \in TreeStatus /\ ~failed /\ ~last_ok) => e.r = RUNNING
        /\ CursorOrder(e, K, SUCCESS)

C1_AsStated ==
    [][/\ \A e \in TicksOf("sequential", log') :
             SequentialReports(e, KidTicks(e.p, log'))
       /\ CursorResumes("sequential")]_vars

\* C1 (amended): as C1 for a sequential with at least one child; a
\* sequential with no children returns SUCCESS on its first tick.
SequentialReportsAmended(e, K) ==
    LET n == Len(N(e.p).children)
        failed == \E k \in 1..Len(K) : K[k].r = FAILURE
        last_ok == /\ Len(K) > 0
                   /\ K[Len(K)].p = Child(e.p, n)
                   /\ K[Len(K)].r = SUCCESS
    IN  /\ failed => e.r = FAILURE
        /\ last_ok => e.r = SUCCESS
        /\ (e.r \in TreeStatus /\ ~failed /\ ~last_ok /\ n > 0)
               => e.r = RUNNING
        /\ (e.r \in TreeStatus /\ n = 0) => e.r = SUCCESS
        /\ CursorOrder(e, K, SUCCESS)

C1_Sequential ==
    [][/\ \A e \in TicksOf("sequential", log') :
             SequentialReportsAmended(e, KidTicks(e.p, log'))
       /\ CursorResumes("sequential")]_vars

\* a sequential of two children resumed its first child, which succeeded
\* without a second setup, and returned the FAILURE of its second child
C1_Witness ==
    /\ tree = sequential(Leaves(2))
    /\ ret = FAILURE
    /\ SetupsAt(<<1>>, log) = <<>>
    /\ Len(TicksAt(<<1>>, log)) = 1
    /\ TicksAt(<<1>>, log)[1].r = SUCCESS
    /\ Len(TicksAt(<<2>>, log)) = 1

\* C2: a tick of fallback returns SUCCESS when a child reports SUCCESS in it,
\* FAILURE when the last child reports FAILURE in it, and RUNNING when a child
\* reports RUNNING; children are ticked in order, none after a child that
\* reported SUCCESS or RUNNING; after RUNNING the next tick re-ticks the same
\* child instance without a second setup.
FallbackReports(e, K) ==
    LET n == Len(N(e.p).children)
    IN  /\ (\E k \in 1..Len(K) : K[k].r = SUCCESS) => e.r = SUCCESS
        /\ (/\ Len(K) > 0
            /\ K[Len(K)].p = Child(e.p, n)
            /\ K[Len(K)].r = FAILURE) => e.r = FAILURE
        /\ (\E k \in 1..Len(K) : K[k].r = RUNNING) => e.r = RUNNING
        /\ CursorOrder(e, K, FAILURE)

C2_Fallback ==
    [][/\ \A e \in TicksOf("fallback", log') :
             FallbackReports(e, KidTicks(e.p, log'))
       /\ CursorResumes("fallback")]_vars

\* a fallback of two children resumed its first child, which failed without
\* a second setup, and returned the SUCCESS of its second child
C2_Witness ==
    /\ tree = fallback(Leaves(2))
    /\ ret = SUCCESS
    /\ SetupsAt(<<1>>, log) = <<>>
    /\ Len(TicksAt(<<1>>, log)) = 1
    /\ TicksAt(<<1>>, log)[1].r = FAILURE
    /\ Len(TicksAt(<<2>>, log)) = 1

\* C3: a tick of an instance of a single-shot composite whose last returned
\* result is SUCCESS or FAILURE raises BehaviourCompleteError (and so never
\* returns a result, nor changes that last result).
C3_SingleShot ==
    [][\A k \in TickIdx(log') :
          (/\ N(log'[k].p).kind \in SingleShot
           /\ Status(tree_status, log'[k].id) \in Terminal)
             => log'[k].r = BehaviourCompleteError]_vars

\* a finished failsafe was ticked again
C3_Witness ==
    /\ tree.kind = "failsafe"
    /\ held
    /\ ret = BehaviourCompleteError
    /\ Status(tree_status, st[<<>>].id) \in Terminal

\* the child instances of a repeat instance (one per repetition), as the
\* graph records them
Repetitions(gr, id) == GraphKids(gr, id)

AllStatus(ts, ids, r) == \A j \in 1..Len(ids) : Status(ts, ids[j]) = r

\* a repeat that returned RUNNING because a repetition ended with the
\* continuation result sets up a new child instance on its next tick
RepeatRestarts(continue_if) ==
    \A e \in TicksOf("repeat", log') :
        LET reps == Repetitions(tree_graph, e.id)
        IN  (/\ N(e.p).continue_if = continue_if
             /\ Status(tree_status, e.id) = RUNNING
             /\ Len(reps) > 0
             /\ Status(tree_status, reps[Len(reps)]) = continue_if)
               => /\ Len(SetupsAt(Child(e.p, 1), log')) = 1
                  /\ SetupsAt(Child(e.p, 1), log')[1].id \notin DOMAIN id_map

\* C4: a tick of retry(factory, count=N) in which the child reports SUCCESS
\* returns SUCCESS; a tick returns FAILURE only if the child reports FAILURE
\* in it, a bound N is set, and this instance has run exactly N repetitions,
\* each ending in FAILURE; without a bound no tick returns FAILURE, and after
\* each failed repetition the next tick starts a new one.
RetryReports(e, K, reps, ts) ==
    LET n == N(e.p)
    IN  /\ (\E k \in 1..Len(K) : K[k].r = SUCCESS) => e.r = SUCCESS
        /\ e.r = FAILURE =>
              /\ n.count # None
              /\ Len(reps) = n.count
              /\ AllStatus(ts, reps, FAILURE)
              /\ Len(K) = 1
              /\ K[1].r = FAILURE
        /\ (/\ n.count # None
            /\ Len(reps) = n.count
            /\ Len(K) = 1
            /\ K[1].r = FAILURE) => e.r = FAILURE
        /\ n.count = None => e.r # FAILURE

C4_Retry ==
    [][/\ \A e \in TicksOf("repeat", log') :
             N(e.p) = retry(N(e.p).children[1], N(e.p).count) =>
                RetryReports(e, KidTicks(e.p, log'),
                             Repetitions(tree_graph', e.id), tree_status')
       /\ RepeatRestarts(FAILURE)]_vars

\* retry with a bound of two returned FAILURE at the second failure
C4_Witness ==
    /\ tree = retry(simple_action, 2)
    /\ ret = FAILURE
    /\ Len(Repetitions(tree_graph, st[<<>>].id)) = 2
    /\ AllStatus(tree_status, Repetitions(tree_graph, st[<<>>].id), FAILURE)

\* C5: a tick of redo(factory, count=N) in which the child reports FAILURE
\* returns FAILURE; a tick returns SUCCESS only if this instance has run
\* exactly N repetitions, each ending in SUCCESS; every other tick that
\* returns a result returns RUNNING.
RedoReports(e, K, reps, ts) ==
    LET n == N(e.p)
        failed == \E k \in 1..Len(K) : K[k].r = FAILURE
    IN  /\ failed => e.r = FAILURE
        /\ e.r = SUCCESS =>
              /\ n.count # None
              /\ Len(reps) = n.count
              /\ AllStatus(ts, reps, SUCCESS)
        /\ (/\ Len(reps) = n.count
            /\ Len(K) = 1
            /\ K[1].r = SUCCESS) => e.r = SUCCESS
        /\ (e.r \in TreeStatus /\ ~failed /\ e.r # SUCCESS) => e.r = RUNNING

C5_Redo ==
    [][\A e \in TicksOf("repeat", log') :
          N(e.p) = redo(N(e.p).children[1], N(e.p).count) =>
             RedoReports(e, KidTicks(e.p, log'),
                         Repetitions(tree_graph', e.id), tree_status')]_vars

\* redo with a bound of two returned SUCCESS at the second success
C5_Witness ==
    /\ tree = redo(simple_action, 2)
    /\ ret = SUCCESS
    /\ Len(Repetitions(tree_graph, st[<<>>].id)) = 2
    /\ AllStatus(tree_status, Repetitions(tree_graph, st[<<>>].id), SUCCESS)

\* the failure node of the failsafe instance ticked by e was instantiated
\* before this driver action
LatchedBefore(e) ==
    e.id = st[e.p].id /\ st[Child(e.p, 2)].h # "new"

\* C6: a tick of an unfinished failsafe whose check is true on the blackboard
\* of this tick, and was never false before, ticks nominal once, returns
\* nominal's result and does not tick failure; a tick whose check is false,
\* or that follows one whose check was false, does not tick nominal, ticks
\* failure once (instantiating it first if this is the first such tick) and
\* returns failure's result.
FailsafeLatches(e, ok) ==
    LET nominal == TicksAt(Child(e.p, 1), log')
        failure == TicksAt(Child(e.p, 2), log')
    IN  /\ (~LatchedBefore(e) /\ ok) =>
              /\ Len(nominal) = 1
              /\ e.r = nominal[1].r
              /\ failure = <<>>
              /\ SetupsAt(Child(e.p, 2), log') = <<>>
        /\ (LatchedBefore(e) \/ ~ok) =>
              /\ nominal = <<>>
              /\ Len(failure) = 1
              /\ e.r = failure[1].r
              /\ Len(SetupsAt(Child(e.p, 2), log')) =
                    IF LatchedBefore(e) THEN 0 ELSE 1

C6_Failsafe ==
    [][\A e \in TicksOf("failsafe", log') :
          (e.bb = arg'.b /\ Status(tree_status, e.id) \notin Terminal) =>
             FailsafeLatches(e, arg'.ok)]_vars

\* the default policy of parallel, as the specification words it
DefaultPolicy(rs, tolerance) ==
    IF \E k \in 1..Len(rs) : rs[k] = RUNNING
    THEN RUNNING
    ELSE IF Cardinality({k \in 1..Len(rs) : rs[k] = FAILURE}) > tolerance
    THEN FAILURE
    ELSE SUCCESS

\* C7: a tick of parallel that returns a result returns RUNNING if a child
\* returned RUNNING in it, else FAILURE if more children than the tolerance
\* returned FAILURE, else SUCCESS.
C7_DefaultReducer ==
    \A e \in TicksOf("parallel", log) :
        LET K == KidTicks(e.p, log)
        IN  e.r \in TreeStatus =>
               e.r = DefaultPolicy([k \in 1..Len(K) |-> K[k].r],
                                   N(e.p).max_failures)

\* a parallel with tolerance 0 returned RUNNING for [RUNNING, FAILURE]
C7_Witness ==
    /\ tree = parallel(Leaves(2), 0)
    /\ ret = RUNNING
    /\ Len(TicksAt(<<1>>, log)) = 1
    /\ TicksAt(<<1>>, log)[1].r = RUNNING
    /\ Len(TicksAt(<<2>>, log)) = 1
    /\ TicksAt(<<2>>, log)[1].r = FAILURE

C9_Remap ==
    \A e \in TicksOf("remap", log) :
        LET K == KidTicks(e.p, log)
            mapping == N(e.p).mapping
        IN  /\ Len(K) = 1
            /\ \A r \in TreeStatus :
                  K[1].r = r =>
                     /\ r \in DOMAIN mapping => e.r = mapping[r]
                     /\ r \notin DOMAIN mapping => e.r = r

\* a remap returned the image of a mapped result
C9_Witness ==
    /\ tree = remap(simple_action, (FAILURE :> RUNNING))
    /\ ret = RUNNING
    /\ Len(TicksAt(<<1>>, log)) = 1
    /\ TicksAt(<<1>>, log)[1].r = FAILURE

\* the result of a tick of swap(child, from_=a, to=b) whose child returned r
Swapped(a, b, r) == IF r = a THEN b ELSE IF r = b THEN a ELSE r

\* the node that swap was given as its child (swap wraps it in a remap)
SwapChild(p) == Child(Child(p, 1), 1)

\* C10: with a # b, a tick of swap(child, from_=a, to=b) returns b when the
\* child returns a, a when it returns b, and the third result unchanged; a
\* swap of a swap with the same pair returns what the inner child returns.
C10_Swap ==
    \A e \in TicksOf("swap", log) :
        LET n == N(e.p)
            c == TicksAt(SwapChild(e.p), log)
            inner == N(SwapChild(e.p))
            cc == TicksAt(SwapChild(SwapChild(e.p)), log)
        IN  /\ Len(c) = 1
            /\ c[1].r \in TreeStatus =>
                  e.r = Swapped(n.from_, n.to, c[1].r)
            /\ (/\ inner.kind = "swap"
                /\ inner.from_ = n.from_
                /\ inner.to = n.to
                /\ e.r \in TreeStatus) => (Len(cc) = 1 /\ e.r = cc[1].r)

\* a swap of a swap returned the inner child's result, one of the pair
C10_Witness ==
    /\ tree = swap(swap(simple_action, SUCCESS, FAILURE), SUCCESS, FAILURE)
    /\ ret = SUCCESS
    /\ Len(TicksAt(<<1, 1, 1, 1>>, log)) = 1
    /\ TicksAt(<<1, 1, 1, 1>>, log)[1].r = SUCCESS
    /\ Len(TicksAt(<<1, 1>>, log)) = 1
    /\ TicksAt(<<1, 1>>, log)[1].r = FAILURE

\* the tree under test is a swap of a result with itself
SelfSwap == tree.kind = "swap" /\ tree.from_ = tree.to

\* C11: a swap of a result with itself fails when the node is constructed:
\* the constructor call returns no node, so no tick function is ever handed
\* out for it.
C11_SwapFailsAtConstruction == SelfSwap => (~built /\ ~held)

\* C12: a tick of always_return(child, always_return=t) ticks the child once
\* and, whatever result the child returns, returns t.
C12_AlwaysReturn ==
    \A e \in TicksOf("always_return", log) :
        LET K == KidTicks(e.p, log)
        IN  /\ Len(K) = 1
            /\ K[1].r \in TreeStatus => e.r = N(e.p).always_return

\* an always_return with target SUCCESS returned it for a RUNNING child
C12_Witness ==
    /\ tree = always_return(simple_action, SUCCESS)
    /\ ret = SUCCESS
    /\ Len(TicksAt(<<1>>, log)) = 1
    /\ TicksAt(<<1>>, log)[1].r = RUNNING

\* the result adapters
Adapters == {"remap", "swap", "always_return"}

AdapterTicks(lg) == UNION {TicksOf(kind, lg) : kind \in Adapters}

TickedIds(lg) == {lg[k].id : k \in TickIdx(lg)}

\* the last tick event of identity id in lg
LastTick(id, lg) ==
    lg[CHOOSE k \in TickIdx(lg) :
          /\ lg[k].id = id
          /\ \A j \in TickIdx(lg) : lg[j].id = id => j <= k]

\* C14: after a tick of a node returns result r the status map holds r for
\* that node's identity; an identity gets a status entry only by being ticked,
\* and a call leaves the entries of the nodes it did not tick unchanged.
C14_StatusMap ==
    [][ /\ \A id \in TickedIds(log') :
             LastTick(id, log').r \in TreeStatus
                 => /\ id \in DOMAIN tree_status'
                    /\ tree_status'[id] = LastTick(id, log').r
        /\ \A k \in TickIdx(log') :
             log'[k].r \in TreeStatus => log'[k].id \in DOMAIN tree_status'
        /\ DOMAIN tree_status' \ DOMAIN tree_status \subseteq TickedIds(log')
        /\ \A id \in DOMAIN tree_status \ TickedIds(log') :
             /\ id \in DOMAIN tree_status'
             /\ tree_status'[id] = tree_status[id]]_vars

\* a tick recorded RUNNING for the node it ticked while the entry of a node
\* it did not tick still holds that node's earlier result
C14_Witness ==
    /\ held
    /\ \E k \in TickIdx(log) :
          /\ log[k].r = RUNNING
          /\ Status(tree_status, log[k].id) = RUNNING
    /\ \E id \in DOMAIN tree_status \ TickedIds(log) :
          tree_status[id] = SUCCESS

\* C15: while sequential(leafA, leafB) is held, after any number of ticks, the
\* graph has exactly one root child, the sequential node, and that node's
\* children are leafA and leafB in that order.
C15_Graph ==
    (tree = sequential(Leaves(2)) /\ held)
        => /\ None \in DOMAIN tree_graph
           /\ GraphKids(tree_graph, None) = <<st[<<>>].id>>
           /\ GraphKids(tree_graph, st[<<>>].id)
                  = <<st[<<1>>].id, st[<<2>>].id>>

\* C16: no step removes an entry from the name map, the graph or the status
\* map: names never change, a node keeps its position in its parent's list of
\* children, and a status entry changes only in a call that ticks its node.
C16_Persistence ==
    [][ /\ \A id \in DOMAIN id_map :
             id \in DOMAIN id_map' /\ id_map'[id] = id_map[id]
        /\ \A parent \in DOMAIN tree_graph :
             /\ parent \in DOMAIN tree_graph'
             /\ IsPrefix(tree_graph[parent], tree_graph'[parent])
        /\ \A id \in DOMAIN tree_status :
             /\ id \in DOMAIN tree_status'
             /\ tree_status'[id] # tree_status[id] => id \in TickedIds(log')
      ]_vars

\* the tree has been released, and a node that was torn down still has its
\* name, its status and its place as the second of its parent's children
C16_Witness ==
    /\ ~held
    /\ \E k \in 1..Len(log) :
          /\ log[k].op = "teardown"
          /\ log[k].id \in DOMAIN id_map
          /\ log[k].id \in DOMAIN tree_status
          /\ \E parent \in DOMAIN tree_graph :
                /\ Len(tree_graph[parent]) >= 2
                /\ tree_graph[parent][2] = log[k].id

\* the setup and teardown events of node q
LifecycleAt(q, lg) ==
    SelectSeq(lg, LAMBDA e : e.op \in {"setup", "teardown"} /\ e.p = q)

\* C18: every node whose setup has run has its teardown run exactly once, no
\* later than the release of the root, whether the root is released after
\* completion, with a descendant still RUNNING, or by an error of a tick: in
\* every call a teardown of a node happens only while the node is set up, a
\* node is not set up again before its teardown, a node is still set up after
\* the call only if no teardown followed its setup, a setup that is not
\* followed by a teardown leaves the node set up unless the acquisition
\* failed, and no node is set up once the root has been released.
C18_Teardown ==
    [][\A q \in Paths(tree) :
          LET E == LifecycleAt(q, log')
              n == Len(E)
          IN  /\ n > 0 /\ E[1].op = "teardown" => st[q].h = "open"
              /\ n > 0 /\ E[1].op = "setup" => st[q].h # "open"
              /\ \A k \in 1..(n - 1) : E[k].op # E[k + 1].op
              /\ n = 0 => (st'[q].h = "open" <=> st[q].h = "open")
              /\ n > 0 /\ E[n].op = "teardown" => st'[q].h # "open"
              /\ n > 0 /\ E[n].op = "setup" /\ st'[q].h # "open"
                    => ~held' /\ ret' \in {TypeError, ValueError}
              /\ ~held' => st'[q].h # "open"
      ]_vars

\* the root was released by the error of a tick, and the release tore down a
\* leaf that was still set up
C18_Witness ==
    /\ ~held
    /\ ret = BehaviourCompleteError
    /\ \E k \in 1..Len(log) :
          /\ log[k].op = "teardown"
          /\ N(log[k].p).kind = "simple_action"
          /\ st[log[k].p].h = "closed"

\* the bookkeeping store as seen from a context with bindings b
View(b) ==
    [id_map |-> b.id_map, call_stack |-> b.call_stack,
     tree_graph |-> tree_graph, tree_status |-> tree_status]

\* every identity of the status map and of the graph has a name in `names`
Named(names) ==
    /\ DOMAIN tree_status \subseteq DOMAIN names
    /\ \A parent \in DOMAIN tree_graph :
          /\ parent # None => parent \in DOMAIN names
          /\ \A k \in 1..Len(tree_graph[parent]) :
                tree_graph[parent][k] \in DOMAIN names

\* C17: seen from any execution context, every identity in the status map or
\* in the graph (as a parent other than none, or as a child) has an entry in
\* the name map.
C17_NamesCoverStore ==
    /\ Named(id_map)
    /\ copied => Named(other.id_map)

\* C19: a context copied from another starts from the store of its parent at
\* that point, and afterwards nothing the running context writes (names,
\* graph, status, active ancestor) changes the store as seen from the other.
C19_Isolation ==
    [][ /\ ~copied /\ copied' => View(other)' = View(Bindings)
        /\ copied /\ current' = current => View(other)' = View(other)
      ]_vars

\* the conditions a react root evaluated, and the children it ticked, tick
\* by tick
Conditions(r) == [k \in 1..Len(r) |-> r[k].condition]

Ticked(r) == [k \in 1..Len(r) |-> r[k].ticked]

\* C20: a react root whose condition is true, true, false, false, true on five
\* successive ticks ticks nominal, nominal, failure, failure, nominal (and,
\* for every sequence of conditions, the nominal child alone when the
\* condition is true and the failure child alone when it is false); a tick
\* leaves the state of the branch it does not tick as it was, and sets up or
\* tears down neither child, so both stay instantiated with their state.
C20_React ==
    [][ /\ \A k \in 1..Len(routed') :
             routed'[k].ticked = IF routed'[k].condition THEN {1} ELSE {2}
        /\ Conditions(routed') = <<TRUE, TRUE, FALSE, FALSE, TRUE>>
              => Ticked(routed') = <<{1}, {1}, {2}, {2}, {1}>>
        /\ Len(routed') = Len(routed) + 1
              => /\ \A q \in Paths(tree) :
                       /\ Len(q) > 0
                       /\ q[1] \notin routed'[Len(routed')].ticked
                       => st'[q] = st[q]
                 /\ \A k \in 1..2 :
                       /\ SetupsAt(<<k>>, log') = <<>>
                       /\ TeardownsAt(<<k>>, log') = <<>>
                       /\ st[<<k>>].h = "open"
                       /\ st'[<<k>>].h = "open"
      ]_vars

\* the condition was true, true, false, false, true; the nominal branch, a
\* redo of two repetitions, finished its first repetition before the failure
\* branch was active and completed its second one after it
C20_Witness ==
    /\ tree = react(redo(simple_action, 2), simple_action)
    /\ held
    /\ Conditions(routed) = <<TRUE, TRUE, FALSE, FALSE, TRUE>>
    /\ Ticked(routed) = <<{1}, {1}, {2}, {2}, {1}>>
    /\ st[<<1>>].i = 1
    /\ ret = SUCCESS
    /\ Len(TicksAt(<<1>>, log)) = 1
    /\ TicksAt(<<1>>, log)[1].r = SUCCESS

\* C21: when the driver ticks only the root and stops once the root has
\* returned SUCCESS or FAILURE, no tick call anywhere in the tree raises the
\* ticked-after-completion error.
C21_NoTickAfterCompletion ==
    \A k \in TickIdx(log) : log[k].r # BehaviourCompleteError

\* the composites that tick their children one after the other
Cursors == {"sequential", "fallback", "repeat"}

CursorTicks(lg) == UNION {TicksOf(kind, lg) : kind \in Cursors}

\* the result of a child after which a cursor composite goes on to the next
Advance(kind) == IF kind = "sequential" THEN SUCCESS ELSE FAILURE

\* the child the tick e of a cursor composite starts with: the child the
\* cursor was left at, or the first child for an instance not ticked before
StartsAt(e) ==
    IF e.id = st[e.p].id /\ st[e.p].i > 0 THEN st[e.p].i ELSE 1

\* C22 as stated: within one tick call of a sequential, fallback or repeat
\* node at most one child is ticked.
C22_AsStated == \A e \in CursorTicks(log) : Len(KidTicks(e.p, log)) <= 1

\* C22: a tick of a sequential or fallback ticks consecutive children in
\* construction order, beginning with the child the cursor was left at (the
\* first child on the first tick), each at most once, and goes on to the next
\* child in the same call exactly when the child just ticked returned the
\* advancing result; a tick of a repeat ticks at most one child, and the
\* index of the repetition never decreases.
C22_CursorOrder ==
    [][\A e \in CursorTicks(log') :
          LET K == KidTicks(e.p, log')
              kind == N(e.p).kind
          IN  IF kind = "repeat"
              THEN /\ Len(K) <= 1
                   /\ e.id = st[e.p].id => st'[e.p].i >= st[e.p].i
              ELSE /\ CursorOrder(e, K, Advance(kind))
                   /\ K # <<>> => K[1].p = Child(e.p, StartsAt(e))
                   /\ \A k \in 1..Len(K) :
                         (K[k].r = Advance(kind)
                             /\ K[k].p # Child(e.p, Len(N(e.p).children)))
                            => k < Len(K)
      ]_vars

\* one tick of a sequential of two children ticked both of them, in order
C22_Witness ==
    /\ tree = sequential(Leaves(2))
    /\ ret = SUCCESS
    /\ Len(KidTicks(<<>>, log)) = 2
    /\ KidTicks(<<>>, log)[1].p = <<1>>
    /\ KidTicks(<<>>, log)[2].p = <<2>>

\* C23: every child tick function and every check function invoked during a
\* tick call receives the blackboard that was passed to that call.
C23_Blackboard ==
    \A k \in 1..Len(log) :
        log[k].op \in {"tick", "check"} => log[k].bb = arg.b

\* C24: whenever the handle of the root has been released, by the normal end
\* of its scope or by an error that went through it, the active ancestor is
\* again the one it was immediately before the handle was acquired.
C24_AncestorRestored ==
    TeardownsAt(<<>>, log) # <<>> => call_stack = st[<<>>].parent

\* node c is set up and not torn down after the first k events of lg, given
\* whether it was before the call
OpenAt(c, lg, k, was_open) ==
    LET E == LifecycleAt(c, SubSeq(lg, 1, k))
    IN  IF E = <<>> THEN was_open ELSE E[Len(E)].op = "setup"

\* C25: when a tick of sequential, fallback, repeat or failsafe returns
\* SUCCESS or FAILURE, every child that composite set up has been torn down
\* by the time the tick returns.
C25_ReleasedAtTerminal ==
    [][\A k \in TickIdx(log') :
          (/\ N(log'[k].p).kind \in
                  {"sequential", "fallback", "repeat", "failsafe"}
           /\ log'[k].r \in Terminal)
          => \A j \in 1..Len(N(log'[k].p).children) :
                LET c == Child(log'[k].p, j)
                IN  ~OpenAt(c, log', k, st[c].h = "open")
      ]_vars

\* the children of p that are set up and not torn down after k events of lg
OpenKids(p, lg, k, before) ==
    {j \in 1..Len(N(p).children) :
        OpenAt(Child(p, j), lg, k, before[Child(p, j)].h = "open")}

\* the index of the last setup of node p among the first k events of lg, or 0
LastSetup(p, lg, k) ==
    LET S == {j \in 1..k : lg[j].op = "setup" /\ lg[j].p = p}
    IN  IF S = {} THEN 0 ELSE CHOOSE j \in S : \A m \in S : m <= j

\* C26: a sequential, fallback or repeat node has at most one child set up
\* and not torn down at every moment; when a child is set up no child of the
\* node is open (the previous one was torn down first); a child of a
\* sequential or fallback is set up at most once in the life of its parent,
\* and child j > 1 only after child j-1 returned the advancing result and
\* was torn down, so a child the cursor does not reach stays not set up.
C26_OneOpenChild ==
    [][\A p \in {q \in Paths(tree) : N(q).kind \in Cursors} :
          /\ \A k \in 0..Len(log') :
                Cardinality(OpenKids(p, log', k, st)) <= 1
          /\ \A k \in 1..Len(log') : \A j \in 1..Len(N(p).children) :
                (log'[k].op = "setup" /\ log'[k].p = Child(p, j))
                => /\ OpenKids(p, log', k - 1, st) = {}
                   /\ N(p).kind # "repeat"
                      => LET kp == LastSetup(p, log', k - 1)
                         IN  /\ \A m \in (kp + 1)..(k - 1) :
                                   ~(log'[m].op = "setup"
                                       /\ log'[m].p = Child(p, j))
                             /\ kp = 0 => st[Child(p, j)].h = "new"
                   /\ (N(p).kind # "repeat" /\ j > 1)
                      => \E k1 \in 1..(k - 1) : \E k2 \in (k1 + 1)..(k - 1) :
                            /\ log'[k1].op = "tick"
                            /\ log'[k1].p = Child(p, j - 1)
                            /\ log'[k1].r = Advance(N(p).kind)
                            /\ log'[k2].op = "teardown"
                            /\ log'[k2].p = Child(p, j - 1)
          /\ N(p).kind # "repeat"
             => \A j \in 2..Len(N(p).children) :
                   st'[Child(p, j)].h # "new"
                   => st'[Child(p, j - 1)].h = "closed"
      ]_vars

\* a sequential of two leaves tore down its first child and set up the second
C26_Witness ==
    /\ tree = sequential(Leaves(2))
    /\ \E k \in 1..Len(log) : \E m \in (k + 1)..Len(log) :
          /\ log[k].op = "teardown" /\ log[k].p = <<1>>
          /\ log[m].op = "setup" /\ log[m].p = <<2>>
    /\ st[<<1>>].h = "closed"
    /\ st[<<2>>].h = "open"

\* the identities under which the graph lists identity x as a child
GraphParents(gr, x) ==
    {k \in DOMAIN gr : \E i \in 1..Len(gr[k]) : gr[k][i] = x}

\* the identities of the nodes of the subtree at c that have been entered
SubtreeIds(c, nodes) ==
    {nodes[q].id : q \in {r \in DOMAIN nodes :
                              IsPrefix(c, r) /\ nodes[r].h # "new"}}

\* every entered child of a parallel is listed under the parallel and only
\* there, and every entered node below a child is listed under a node of
\* that child's subtree and nowhere else
ParallelAttribution(nodes, gr) ==
    \A p \in {q \in Paths(tree) : N(q).kind = "parallel"} :
       \A j \in 1..Len(N(p).children) :
          LET c == Child(p, j) IN
          /\ nodes[c].h # "new"
             => GraphParents(gr, nodes[c].id) = {nodes[p].id}
          /\ \A q \in Paths(tree) :
                (IsPrefix(c, q) /\ q # c /\ nodes[q].h # "new")
                => /\ GraphParents(gr, nodes[q].id) # {}
                   /\ GraphParents(gr, nodes[q].id) \subseteq
                          SubtreeIds(c, nodes)

\* C27: every direct child of a parallel is recorded in the graph under the
\* parallel, every node a child constructs while ticking is recorded under
\* that child's subtree and never under a sibling, and a tick of a parallel
\* that ticks its children leaves the active ancestor at the value it had
\* before.
C27_ParallelStack ==
    [][ /\ ParallelAttribution(st', tree_graph')
        /\ (held /\ held' /\ tree.kind = "parallel"
               /\ KidTicks(<<>>, log') # <<>>)
           => call_stack' = call_stack
      ]_vars

\* the places <<parent, position>> at which the graph lists identity x
Occurrences(gr, x) ==
    UNION {{<<k, i>> : i \in {j \in 1..Len(gr[k]) : gr[k][j] = x}} :
              k \in DOMAIN gr}

\* the path of the composite that owns the node at non-root path q
Parent(q) == SubSeq(q, 1, Len(q) - 1)

\* the identity of the composite that owns the node set up by event k of lg:
\* the instance of the parent path entered last (in this call, or before it)
Owner(k, lg, before) ==
    LET q == Parent(lg[k].p)
        kp == LastSetup(q, lg, k - 1)
    IN  IF kp = 0 THEN before[q].id ELSE lg[kp].id

SetupIdx(lg) == {k \in 1..Len(lg) : lg[k].op = "setup"}

\* C28: with a single caller, every node that is set up is recorded in the
\* graph exactly once; a node below the root is recorded in the list of the
\* composite that owns it, behind the children that list had before the call
\* and behind the children of the same composite set up earlier in the call;
\* and no list loses or reorders the entries it had.
C28_GraphRecords ==
    [][ /\ \A k \in SetupIdx(log') :
              /\ Cardinality(Occurrences(tree_graph', log'[k].id)) = 1
              /\ log'[k].p # <<>>
                 => LET o == Owner(k, log', st)
                        x == log'[k].id
                    IN  \E i \in 1..Len(GraphKids(tree_graph', o)) :
                           /\ tree_graph'[o][i] = x
                           /\ i > Len(GraphKids(tree_graph, o))
                           /\ \A k2 \in SetupIdx(log') :
                                 (k2 < k /\ log'[k2].p # <<>>
                                     /\ Owner(k2, log', st) = o)
                                 => \E i2 \in 1..(i - 1) :
                                       tree_graph'[o][i2] = log'[k2].id
        /\ \A o \in DOMAIN tree_graph :
              /\ o \in DOMAIN tree_graph'
              /\ Len(tree_graph'[o]) >= Len(tree_graph[o])
              /\ SubSeq(tree_graph'[o], 1, Len(tree_graph[o])) = tree_graph[o]
      ]_vars

\* no tick raised, and the two children of a sequential are listed under it
\* in the order they were set up
C28_Witness ==
    /\ tree = sequential(Leaves(2))
    /\ ret = SUCCESS
    /\ GraphKids(tree_graph, st[<<>>].id) = <<st[<<1>>].id, st[<<2>>].id>>
    /\ \E k \in 1..Len(log) : \E m \in (k + 1)..Len(log) :
          /\ log[k].op = "setup" /\ log[k].p = <<1>>
          /\ log[m].op = "setup" /\ log[m].p = <<2>>

\* C29: acquiring the root in a context whose store is in its initial state
\* (no active ancestor, nothing recorded) yields a handle and records the
\* root in the graph under the key none, as the only child of none.
C29_RootUnderNone ==
    [][(/\ acquired' = acquired + 1
        /\ call_stack = EmptyList
        /\ id_map = EmptyMap
        /\ tree_graph = EmptyMap
        /\ tree_status = EmptyMap)
       => /\ held'
          /\ None \in DOMAIN tree_graph'
          /\ GraphKids(tree_graph', None) = <<st'[<<>>].id>>
      ]_vars

\* C30: every repetition of a repeat runs on a node of its own: the node set
\* up for a repetition has an identity no earlier node has, it is set up only
\* when the node of the previous repetition has been torn down and returned
\* the continuation result, it is ticked in the call that sets it up, and
\* with a bound no more nodes are set up than the bound allows.
C30_FreshRepetition ==
    [][\A p \in {q \in Paths(tree) : N(q).kind = "repeat"} :
          \A k \in SetupIdx(log') :
             log'[k].p = Child(p, 1)
             => LET c == Child(p, 1)
                    x == log'[k].id
                    reps == Repetitions(tree_graph', Owner(k, log', st))
                IN  /\ x \notin DOMAIN id_map
                    /\ \A k2 \in SetupIdx(log') : k2 # k => log'[k2].id # x
                    /\ ~OpenAt(c, log', k - 1, st[c].h = "open")
                    /\ \E m \in (k + 1)..Len(log') :
                          /\ log'[m].op = "tick"
                          /\ log'[m].p = c
                          /\ log'[m].id = x
                    /\ \E i \in 1..Len(reps) :
                          /\ reps[i] = x
                          /\ \A i2 \in 1..(i - 1) :
                                /\ reps[i2] # x
                                /\ Status(tree_status', reps[i2])
                                      = N(p).continue_if
                    /\ N(p).count # None => Len(reps) <= N(p).count
      ]_vars

\* a retry set up the node of its second repetition in the call in which the
\* node of the first one was torn down
C30_Witness ==
    /\ tree = retry(simple_action, 2)
    /\ Len(Repetitions(tree_graph, st[<<>>].id)) = 2
    /\ \E k \in 1..Len(log) : \E m \in (k + 1)..Len(log) :
          /\ log[k].op = "teardown" /\ log[k].p = <<1>>
          /\ log[k].id = Repetitions(tree_graph, st[<<>>].id)[1]
          /\ log[m].op = "setup" /\ log[m].p = <<1>>
          /\ log[m].id = Repetitions(tree_graph, st[<<>>].id)[2]

\* the indices of the events of lg of kind op at a node of the subtree at q
EventsBelow(op, q, lg) ==
    {k \in 1..Len(lg) : lg[k].op = op /\ IsPrefix(q, lg[k].p)}

\* C31: in a call in which the check of a failsafe evaluates false, no node
\* of nominal is ticked after the check, nominal is torn down before failure
\* is set up, failure is ticked and its result is the result of the failsafe
\* in that call; and failure is set up only in a call in which the check
\* evaluated false before.
C31_FailsafeSwitch ==
    [][\A p \in {q \in Paths(tree) : N(q).kind = "failsafe"} :
          LET nominal == Child(p, 1)
              failure == Child(p, 2)
              False == {k \in 1..Len(log') :
                          /\ log'[k].op = "check"
                          /\ log'[k].p = p
                          /\ log'[k].r = "False"}
          IN  /\ \A k \in False :
                    /\ \A m \in EventsBelow("tick", nominal, log') : m < k
                    /\ \E d \in (k + 1)..Len(log') :
                       \E u \in (d + 1)..Len(log') :
                       \E t \in (u + 1)..Len(log') :
                       \E r \in (t + 1)..Len(log') :
                          /\ log'[d].op = "teardown" /\ log'[d].p = nominal
                          /\ \A m \in EventsBelow("teardown", nominal, log') :
                                m < u
                          /\ log'[u].op = "setup" /\ log'[u].p = failure
                          /\ log'[t].op = "tick" /\ log'[t].p = failure
                          /\ log'[r].op = "tick" /\ log'[r].p = p
                          /\ log'[r].r = log'[t].r
                          /\ \A m \in (t + 1)..(r - 1) : log'[m].op # "tick"
              /\ \A u \in EventsBelow("setup", failure, log') :
                    \E k \in False : k < u
      ]_vars

\* the failsafe at the root was ticked with its nominal node open, the check
\* evaluated false, and failure was set up and ticked in that call
C31_Witness ==
    /\ tree = failsafe(simple_action, simple_action)
    /\ ret = SUCCESS
    /\ Len(log) = 5
    /\ log[1].op = "check" /\ log[1].r = "False"
    /\ log[2].op = "teardown" /\ log[2].p = <<1>>
    /\ log[3].op = "setup" /\ log[3].p = <<2>>
    /\ log[4].op = "tick" /\ log[4].p = <<2>> /\ log[4].r = SUCCESS
    /\ log[5].op = "tick" /\ log[5].p = <<>> /\ log[5].r = SUCCESS

\* C32: an acquisition of the root that fails in the node's setup leaves the
\* store as it was before the attempt: the name map, the graph, the status
\* map and the active ancestor are unchanged.
C32_FailedSetupLeavesStore ==
    [][(/\ acquired' = acquired + 1
        /\ ~held'
        /\ SetupsAt(<<>>, log') # <<>>)
       => /\ id_map' = id_map
          /\ tree_graph' = tree_graph
          /\ tree_status' = tree_status
          /\ call_stack' = call_stack
      ]_vars

\* the identities in the status map whose name is the name of a sequential
SequentialIds(names, ts) ==
    {id \in DOMAIN ts : id \in DOMAIN names /\ names[id] = "sequential"}

\* C33: the status map agrees with the policy of sequential: a sequential
\* whose last status is SUCCESS has only children with status SUCCESS in the
\* graph; one whose last status is FAILURE or RUNNING has a last child in the
\* graph with that status and only SUCCESS before it.
C33_StatusPolicy ==
    \A id \in SequentialIds(id_map, tree_status) :
        LET kids == GraphKids(tree_graph, id)
            n == Len(kids)
        IN  IF tree_status[id] = SUCCESS
            THEN AllStatus(tree_status, kids, SUCCESS)
            ELSE /\ n > 0
                 /\ Status(tree_status, kids[n]) = tree_status[id]
                 /\ AllStatus(tree_status, SubSeq(kids, 1, n - 1), SUCCESS)

-----------------------------------------------------------------------------
\* Termination under the driver loop.

\* a leaf returned RUNNING in this call only if its last status was not
\* RUNNING: every leaf returns RUNNING at most once before its terminal
\* result, as the run_then leaves of the tests do
LeavesFinish(lg, ts) ==
    \A k \in TickIdx(lg) :
        (N(lg[k].p).kind = "simple_action" /\ lg[k].r = RUNNING)
        => Status(ts, lg[k].id) # RUNNING

\* one iteration of `while result == RUNNING: result = tick(blackboard)` over
\* leaves that finish; an error of a tick leaves the loop
TickUntilDone ==
    /\ ret \notin {SUCCESS, FAILURE} \cup Errors
    /\ Tick
    /\ LeavesFinish(log', tree_status)

\* the `with` block is left when the loop has ended
ReleaseAfterLoop ==
    /\ ret \in {SUCCESS, FAILURE}
    /\ Release

NextRun ==
    Construct \/ Acquire \/ TickUntilDone \/ ReleaseAfterLoop \/ ReleaseOnError

SpecRun == Init /\ [][NextRun]_vars

RECURSIVE Finishing(_), Fresh(_), FreshFrom(_, _), Rank(_, _, _),
          RankFrom(_, _, _, _)

\* t is built from leaves, sequential, fallback, failsafe and repeat with a
\* count only
Finishing(t) ==
    /\ t.kind \in {"simple_action", "sequential", "fallback", "failsafe",
                    "repeat"}
    /\ t.kind = "repeat" => t.count # None
    /\ \A k \in 1..Len(t.children) : Finishing(t.children[k])

\* the root is a sequential, a fallback, a failsafe or a repeat with a count
\* over children that finish
Finite(t) == t.kind # "simple_action" /\ Finishing(t)

\* the most RUNNING results a node of shape t returns from its setup on: one
\* for a leaf, those of all its children for a sequential, fallback or
\* failsafe, and for a repeat those of count children and one between two
\* consecutive repetitions
Fresh(t) ==
    CASE t.kind = "simple_action" -> 1
      [] t.kind = "repeat" ->
            IF t.count = 0 THEN 0
            ELSE t.count * Fresh(t.children[1]) + (t.count - 1)
      [] OTHER -> FreshFrom(t, 1)

FreshFrom(t, k) ==
    IF k > Len(t.children) THEN 0
    ELSE Fresh(t.children[k]) + FreshFrom(t, k + 1)

\* the most RUNNING results the node at p still returns in the state given
\* by the handles and the status map
Rank(p, nodes, ts) ==
    LET n == N(p) IN
    CASE nodes[p].h = "closed" -> 0
      [] nodes[p].h = "new" -> Fresh(n)
      [] n.kind = "simple_action" ->
            IF Status(ts, nodes[p].id) = RUNNING THEN 0 ELSE 1
      [] n.kind = "repeat" ->
            LET left == n.count - 1 - nodes[p].i
                fresh == Fresh(n.children[1])
            IN  CASE nodes[p].g = "start" -> Fresh(n)
                  [] nodes[p].g = "running" ->
                        Rank(Child(p, 1), nodes, ts) + left * (fresh + 1)
                  [] nodes[p].g = "between" ->
                        left * fresh + (IF left > 0 THEN left - 1 ELSE 0)
                  [] OTHER -> 0
      [] OTHER ->
            IF nodes[p].g \in {"final", "done"}
            THEN 0
            ELSE RankFrom(p, 1, nodes, ts)

RankFrom(p, k, nodes, ts) ==
    IF k > Len(N(p).children) THEN 0
    ELSE Rank(Child(p, k), nodes, ts) + RankFrom(p, k + 1, nodes, ts)

\* C34: with leaves that return a terminal result after finitely many
\* ticks, a held sequential, fallback, failsafe or repeat with a count
\* returns SUCCESS or FAILURE after finitely many ticks of the driver loop:
\* no tick of the loop raises, and every tick that returns RUNNING lowers a
\* natural number, the number of RUNNING results the tree can still return.
C34_Terminates ==
    [][(held /\ held' /\ Finite(tree))
       => /\ ret' \in TreeStatus
          /\ Rank(<<>>, st', tree_status') \in Nat
          /\ ret' = RUNNING
             => Rank(<<>>, st', tree_status') < Rank(<<>>, st, tree_status)
      ]_vars

\* a retry of a one-leaf sequential bounded by two ended the loop with
\* SUCCESS on its second repetition, after a RUNNING tick between the two
C34_Witness ==
    /\ tree = retry(sequential(Leaves(1)), 2)
    /\ held
    /\ ret = SUCCESS
    /\ Len(Repetitions(tree_graph, st[<<>>].id)) = 2
    /\ Status(tree_status, Repetitions(tree_graph, st[<<>>].id)[1]) = FAILURE
    /\ Rank(<<>>, st, tree_status) = 0

====
